---- MODULE Spec2Model ----
(***************************************************************************)
(* Model of the audio concatenation / duration-budget trimming procedure   *)
(* _concat_trim_to of src/main.py (the "Timeline Packer"), and of the      *)
(* adapters around it: enhance (src/audio_fx.py), fetch (src/bg_image.py), *)
(* make_dialogue (src/dialogue.py), run_one and run_all (src/main.py).     *)
(*                                                                         *)
(* All durations are integers in milliseconds, as pydub reports them       *)
(* (len(seg)).  The realized durations the code returns are floats in      *)
(* seconds obtained as x / 1000.0 from an integer x of milliseconds; the   *)
(* model keeps the integer numerator x, so "an entry equal to B/1000" is   *)
(* the entry whose numerator is B.                                         *)
(***************************************************************************)
EXTENDS Integers, Sequences, FiniteSets, TLC

(* ---------------- bounds of the model ---------------- *)
MaxClips  == 3
MaxDur    == 3
MaxGap    == 2
MaxBudget == 7
MaxRawLines == 3
MaxTurns  == 2

(* ---------------- program constants ---------------- *)
\* default gap_ms of _concat_trim_to, and the value run_one passes
DEFAULT_GAP_MS == 120
\* int(MAX_SHORTS_SEC * 1000) with MAX_SHORTS_SEC = 59.0
MAX_SHORTS_MS == 59000

\* clip lengths, gaps and budgets the inputs are drawn from: a small
\* contiguous range plus the values of the real configuration
Durs    == (0..MaxDur) \cup {5000, 10000}
Gaps    == (0..MaxGap) \cup {DEFAULT_GAP_MS}
Budgets == (0..MaxBudget) \cup {25000, MAX_SHORTS_MS}

RECURSIVE SeqsUpTo(_, _)
SeqsUpTo(S, n) ==
    IF n = 0 THEN {<<>>}
    ELSE LET shorter == SeqsUpTo(S, n - 1)
         IN  shorter \cup {Append(s, x) : s \in {t \in shorter : Len(t) = n - 1}, x \in S}

VARIABLES
    mp_paths,   \* the clips, in order: mp_paths[i] is len(AudioSegment.from_file(p)) in ms
    gap_ms,     \* parameter gap_ms
    max_ms,     \* int(max_sec * 1000)
    idx,        \* 0-based position of the for loop
    elapsed,    \* local elapsed
    combined,   \* local combined: the pieces appended so far, in order
    new_durs,   \* local new_durs (numerators in ms of the float seconds)
    full_raw,   \* content of TEMP/"full_raw.mp3"
    pc          \* "idle" (not called), "loop", "export" or "done"

\* enhance (src/audio_fx.py)
VARIABLES
    ffmpeg_found,  \* shutil.which("ffmpeg") finds the binary
    fx_dir,        \* out_mp3.parent exists
    full_mp3,      \* content of out_mp3 (TEMP/"full.mp3")
    fx_i,          \* 0-based position of the loop over TRY_CHAINS
    fx_attempts,   \* the ffmpeg runs made so far, in order, with their exit codes
    fx_pc          \* "idle", "start", "chains", "plain", "returned" or "raised"

\* fetch (src/bg_image.py)
VARIABLES
    unsplash_key,  \* UNSPLASH_ACCESS_KEY is set
    bg_topic,      \* parameter topic
    bg_png,        \* content of out_png (TEMP/"bg.png")
    img_bytes,     \* local img_bytes: "none", "image" or "not_image"
    bg_log,        \* the network requests and decoding attempts made, in order
    bg_exc,        \* the exception in flight inside the try block, "none" if none
    bg_ret,        \* the value returned: "none" before the return, else TRUE or FALSE
    bg_pc          \* "idle", "start", "search", "download", "resize", "except",
                   \* "returned" or "raised"

\* make_dialogue (src/dialogue.py)
VARIABLES
    dlg_lang,    \* parameter lang
    dlg_mode,    \* parameter mode
    dlg_turns,   \* parameter turns
    dlg_raw,     \* raw_lines: the lines of the response of the language model
    dlg_lines,   \* local lines
    dlg_k,       \* 0-based position of the loop over lines
    dlg_result,  \* local result: the (speaker, text) pairs built so far
    dlg_pc       \* "idle", "call", "select", "pad", "convert", "returned" or "raised"

\* run_all and run_one (src/main.py)
VARIABLES
    combos,         \* COMBOS: the entries of combos.yaml, in order
    content_mode,   \* CONTENT_MODE
    silent_second,  \* VOCAB_SILENT_SECOND is "1"
    lines_only,     \* args.lines_only
    do_upload,      \* parameter do_upload
    turns_arg,      \* parameter turns
    combo_i,        \* 0-based position of the loop of run_all over COMBOS
    batch_pc,       \* "off" (run_all not running), "loop", "finished" or "aborted"
    run_pc,         \* position inside run_one, "idle" outside of it
    run_err,        \* what raised inside run_one, "none" if nothing did
    stages,         \* the stages the current run_one went through, in order
    batch_log,      \* per combo started: its index and how its run_one ended
    dialogue,       \* local dialogue
    valid_dialogue, \* local valid_dialogue
    clips,          \* TEMP/01.mp3, 02.mp3, ...: the lengths in ms of the files written
    sub_rows,       \* local sub_rows
    run_durs,       \* local new_durs of run_one
    lines_json,     \* TEMP/"lines.json": whether it exists and the rows written
    manifest_writes,\* how often the current run_one wrote lines.json
    videos,         \* the files the renderer wrote to OUTPUT, in order
    uploads         \* the uploads made, in order

packerVars == <<mp_paths, gap_ms, max_ms, idx, elapsed, combined, new_durs, full_raw, pc>>
fxVars     == <<ffmpeg_found, fx_dir, full_mp3, fx_i, fx_attempts, fx_pc>>
bgVars     == <<unsplash_key, bg_topic, bg_png, img_bytes, bg_log, bg_exc, bg_ret, bg_pc>>
dlgVars    == <<dlg_lang, dlg_mode, dlg_turns, dlg_raw, dlg_lines, dlg_k, dlg_result, dlg_pc>>

\* the configuration of the process
cfgVars    == <<combos, content_mode, silent_second, lines_only, do_upload, turns_arg>>
\* the locals of run_all and run_one and the files they write themselves
runLocals  == <<combo_i, batch_pc, run_pc, run_err, stages, batch_log, dialogue, valid_dialogue,
                clips, sub_rows, run_durs, lines_json, manifest_writes, videos, uploads>>
runVars    == <<cfgVars, runLocals>>

vars == <<packerVars, fxVars, bgVars, dlgVars, runVars>>

\* what an operation of one component leaves alone
notPacker == <<fxVars, bgVars, dlgVars, runVars>>
notFx     == <<packerVars, bgVars, dlgVars, runVars>>
notBg     == <<packerVars, fxVars, dlgVars, runVars>>
notDlg    == <<packerVars, fxVars, bgVars, runVars>>

N == Len(mp_paths)

(* ---------------- pydub primitives ---------------- *)
\* a piece of the merged track taken from clip number src (1-based), ms long
ClipPiece(src, ms) == [kind |-> "clip", src |-> src, ms |-> ms]
\* AudioSegment.silent(duration=ms)
Silent(ms) == [kind |-> "silence", src |-> 0, ms |-> ms]

\* len(seg[:r]) for a segment of seg_ms milliseconds and r >= 0
SegSliceWhole(seg_ms, r) == seg_ms
SegSlice(seg_ms, r) == IF r < seg_ms THEN r ELSE seg_ms

RECURSIVE TrackLen(_)
\* len() of a concatenation of pieces
TrackLen(t) == IF t = <<>> THEN 0 ELSE t[1].ms + TrackLen(Tail(t))

RECURSIVE SumSeq(_)
SumSeq(s) == IF s = <<>> THEN 0 ELSE s[1] + SumSeq(Tail(s))

\* a file left by an earlier run, and no file
NoFile    == [exists |-> FALSE, track |-> <<>>]
PriorFile == [exists |-> TRUE,  track |-> <<ClipPiece(1, 1)>>]

(* ---------------- the loop body, line by line ---------------- *)
SegMs(i) == mp_paths[i + 1]

ExtraAlways(i) == gap_ms
ExtraOffByOne(i) == IF i < N - 2 THEN gap_ms ELSE 0
\* extra = gap_ms if idx < len(mp_paths) - 1 else 0
Extra(i) == IF i < N - 1 THEN gap_ms ELSE 0

NeedNoGap(i) == SegMs(i)
\* need = seg_ms + extra
Need(i) == SegMs(i) + Extra(i)

\* remain = max_ms - elapsed
Remain == max_ms - elapsed

RemainExhaustedStrict(r) == r < 0
\* if remain <= 0: break
RemainExhausted(r) == r <= 0

\* if need <= remain
Fits(need, r) == need <= r

UsedGapFull(r, seg_ms, extra) == extra
\* used_gap = remain - seg_ms
UsedGap(r, seg_ms, extra) == r - seg_ms

(***************************************************************************)
(* enhance (src/audio_fx.py)                                               *)
(***************************************************************************)
\* the filters of BASE_CHAIN
BASE_CHAIN == {"highpass", "lowpass", "equalizer", "acompressor"}

TRY_CHAINS_VolumeFirst ==
    << BASE_CHAIN \cup {"volume"},
       BASE_CHAIN \cup {"dynaudnorm"},
       BASE_CHAIN \cup {"loudnorm"} >>
\* the filter chains, in the order they are tried
TRY_CHAINS ==
    << BASE_CHAIN \cup {"loudnorm"},
       BASE_CHAIN \cup {"dynaudnorm"},
       BASE_CHAIN \cup {"volume"} >>

ChainsToTrySkipLast == SubSeq(TRY_CHAINS, 1, Len(TRY_CHAINS) - 1)
\* for chain in TRY_CHAINS
ChainsToTry == TRY_CHAINS

\* exit codes an ffmpeg run can end with
ExitCodes == {0, 1}

FfmpegMissingNever(found) == FALSE
\* if not shutil.which("ffmpeg")
FfmpegMissing(found) == ~found

SucceededInverted(rc) == rc # 0
\* if proc.returncode == 0
Succeeded(rc) == rc = 0

\* the exit codes a run of ffmpeg on the input file inp can end with: it
\* cannot succeed without its input
RunExitCodes(inp) == IF inp.exists THEN ExitCodes ELSE ExitCodes \ {0}

\* the file an ffmpeg run that exited 0 wrote: the track of its input with
\* the filters af applied (filtered is FALSE for a run without -af)
Encoded(af, filtered, inp) ==
    [state |-> "ok", filtered |-> filtered, af |-> af, track |-> inp.track]
\* no file, a file left by an earlier run, and what a failed ffmpeg run may leave
NoOut     == [state |-> "absent", filtered |-> FALSE, af |-> {}, track |-> <<>>]
StaleOut  == [state |-> "stale",  filtered |-> FALSE, af |-> {}, track |-> <<>>]
BrokenOut == [state |-> "broken", filtered |-> FALSE, af |-> {}, track |-> <<>>]

\* the possible contents of the output file after an ffmpeg -y run with exit
\* code rc that would encode enc, the file holding cur before
FfmpegWrites(rc, enc, cur) == IF rc = 0 THEN {enc} ELSE {cur, BrokenOut}

\* _run_ffmpeg_filter(inp, out, chain) that ended with exit code rc
FilterRun(i, rc) == [kind |-> "filter", chain |-> i, af |-> ChainsToTry[i], rc |-> rc]
\* the plain re-encode (no -af) that ended with exit code rc
PlainRun(rc) == [kind |-> "plain", chain |-> 0, af |-> {}, rc |-> rc]

\* enhance has not been called
FxIdle ==
    /\ ffmpeg_found = TRUE
    /\ fx_dir = TRUE
    /\ full_mp3 = NoOut
    /\ fx_i = 0
    /\ fx_attempts = <<>>
    /\ fx_pc = "idle"

\* shutil.which finds nothing: raise RuntimeError
EnhanceNoFfmpeg ==
    /\ fx_pc = "start"
    /\ FfmpegMissing(ffmpeg_found)
    /\ fx_pc' = "raised"
    /\ UNCHANGED <<ffmpeg_found, fx_dir, full_mp3, fx_i, fx_attempts>>
    /\ UNCHANGED notFx

\* out_mp3.parent.mkdir(parents=True, exist_ok=True); last_err = None
EnhancePrepare ==
    /\ fx_pc = "start"
    /\ ~FfmpegMissing(ffmpeg_found)
    /\ fx_dir' = TRUE
    /\ fx_i' = 0
    /\ fx_pc' = "chains"
    /\ UNCHANGED <<ffmpeg_found, full_mp3, fx_attempts>>
    /\ UNCHANGED notFx

\* one iteration of the loop over TRY_CHAINS: run ffmpeg with the chain,
\* return on exit code 0, otherwise remember the failure and go on
TryChain ==
    /\ fx_pc = "chains"
    /\ fx_i < Len(ChainsToTry)
    /\ \E rc \in RunExitCodes(full_raw) :
          /\ fx_attempts' = Append(fx_attempts, FilterRun(fx_i + 1, rc))
          /\ full_mp3' \in FfmpegWrites(rc, Encoded(ChainsToTry[fx_i + 1], TRUE, full_raw), full_mp3)
          /\ IF Succeeded(rc)
             THEN fx_pc' = "returned" /\ fx_i' = fx_i
             ELSE fx_pc' = "chains" /\ fx_i' = fx_i + 1
    /\ UNCHANGED <<ffmpeg_found, fx_dir>>
    /\ UNCHANGED notFx

\* every chain failed: the plain re-encode; raise if it fails too
PlainReencode ==
    /\ fx_pc = "chains"
    /\ fx_i = Len(ChainsToTry)
    /\ \E rc \in RunExitCodes(full_raw) :
          /\ fx_attempts' = Append(fx_attempts, PlainRun(rc))
          /\ full_mp3' \in FfmpegWrites(rc, Encoded({}, FALSE, full_raw), full_mp3)
          /\ fx_pc' = IF rc # 0 THEN "raised" ELSE "returned"
    /\ UNCHANGED <<ffmpeg_found, fx_dir, fx_i>>
    /\ UNCHANGED notFx


(***************************************************************************)
(* fetch (src/bg_image.py)                                                 *)
(***************************************************************************)
W == 1080
H == 1920

\* topics the stand-alone specification calls fetch with
Topics == {"hotel", "airport", "restaurant", "AUTO"}

\* Image.new("RGB", (W, H), color).save(out_png, "PNG")
SolidImage == [kind |-> "solid", w |-> W, h |-> H, query |-> ""]
\* ImageOps.fit(im, (W, H), ...).save(out_png, "PNG") of the image found for query q
FittedPhoto(q) == [kind |-> "photo", w |-> W, h |-> H, query |-> q]
\* no file, a file left by an earlier run, a file whose saving was interrupted
NoPng      == [kind |-> "absent",  w |-> 0, h |-> 0, query |-> ""]
StalePng   == [kind |-> "stale",   w |-> W, h |-> H, query |-> ""]
PartialPng == [kind |-> "partial", w |-> 0, h |-> 0, query |-> ""]

\* what the search request can end with: a result, a network error or timeout
\* (requests.get raises), an HTTP error status (raise_for_status raises), a
\* response without urls/regular (KeyError, or ValueError on a non-JSON body)
SearchOutcomes == {"ok", "network_error", "http_error", "no_result"}
\* what the image download can end with: the image, a network error or
\* timeout (requests.get raises), or an error response whose body is taken
\* as the image bytes (there is no raise_for_status on this request)
DownloadOutcomes == {"ok", "network_error", "error_body"}
\* what decoding and saving the downloaded bytes b can end with
ResizeOutcomes(b) == IF b = "image" THEN {"ok", "save_failed"} ELSE {"undecodable"}

KeyMissingNever(key) == FALSE
\* if not UNSPLASH_ACCESS_KEY
KeyMissing(key) == ~key

CaughtRequestsOnly(exc) == exc \in {"network_error", "http_error"}
\* except Exception
Caught(exc) == TRUE

\* fetch has not been called
BgIdle ==
    /\ unsplash_key = TRUE
    /\ bg_topic = ""
    /\ bg_png = NoPng
    /\ img_bytes = "none"
    /\ bg_log = <<>>
    /\ bg_exc = "none"
    /\ bg_ret = "none"
    /\ bg_pc = "idle"

\* no key: warning, _fallback_solid(out_png), return False
FetchNoKey ==
    /\ bg_pc = "start"
    /\ KeyMissing(unsplash_key)
    /\ bg_png' = SolidImage
    /\ bg_ret' = FALSE
    /\ bg_pc' = "returned"
    /\ UNCHANGED <<unsplash_key, bg_topic, img_bytes, bg_log, bg_exc>>
    /\ UNCHANGED notBg

\* r = requests.get(url); r.raise_for_status(); img_url = r.json()["urls"]["regular"]
FetchSearch ==
    /\ bg_pc = "start"
    /\ ~KeyMissing(unsplash_key)
    /\ \E o \in SearchOutcomes :
          /\ bg_log' = Append(bg_log, [op |-> "search", query |-> bg_topic, outcome |-> o])
          /\ IF o = "ok"
             THEN bg_pc' = "download" /\ bg_exc' = "none"
             ELSE bg_pc' = "except" /\ bg_exc' = o
    /\ UNCHANGED <<unsplash_key, bg_topic, bg_png, img_bytes, bg_ret>>
    /\ UNCHANGED notBg

\* img_bytes = requests.get(img_url, timeout=15).content
FetchDownload ==
    /\ bg_pc = "download"
    /\ \E o \in DownloadOutcomes :
          /\ bg_log' = Append(bg_log, [op |-> "image", query |-> bg_topic, outcome |-> o])
          /\ CASE o = "ok" ->
                    img_bytes' = "image" /\ bg_pc' = "resize" /\ bg_exc' = "none"
               [] o = "error_body" ->
                    img_bytes' = "not_image" /\ bg_pc' = "resize" /\ bg_exc' = "none"
               [] o = "network_error" ->
                    img_bytes' = img_bytes /\ bg_pc' = "except" /\ bg_exc' = o
    /\ UNCHANGED <<unsplash_key, bg_topic, bg_png, bg_ret>>
    /\ UNCHANGED notBg

\* _resize_1080x1920(img_bytes, out_png); return True
FetchResize ==
    /\ bg_pc = "resize"
    /\ \E o \in ResizeOutcomes(img_bytes) :
          /\ bg_log' = Append(bg_log, [op |-> "decode", query |-> bg_topic, outcome |-> o])
          /\ CASE o = "ok" ->
                    bg_png' = FittedPhoto(bg_topic) /\ bg_ret' = TRUE
                    /\ bg_pc' = "returned" /\ bg_exc' = "none"
               [] o = "undecodable" ->
                    bg_png' = bg_png /\ bg_ret' = bg_ret
                    /\ bg_pc' = "except" /\ bg_exc' = o
               [] o = "save_failed" ->
                    bg_png' = PartialPng /\ bg_ret' = bg_ret
                    /\ bg_pc' = "except" /\ bg_exc' = o
    /\ UNCHANGED <<unsplash_key, bg_topic, img_bytes>>
    /\ UNCHANGED notBg

\* except Exception: logging.exception, _fallback_solid(out_png), return False
FetchExcept ==
    /\ bg_pc = "except"
    /\ IF Caught(bg_exc)
       THEN bg_png' = SolidImage /\ bg_ret' = FALSE /\ bg_pc' = "returned"
       ELSE bg_png' = bg_png /\ bg_ret' = bg_ret /\ bg_pc' = "raised"
    /\ UNCHANGED <<unsplash_key, bg_topic, img_bytes, bg_log, bg_exc>>
    /\ UNCHANGED notBg


(***************************************************************************)
(* make_dialogue (src/dialogue.py)                                         *)
(*                                                                         *)
(* A text is a sequence of tokens: "SP" is a run of whitespace, "COLON"    *)
(* the character ':', "ELLIPSIS" the character U+2026, "DOTS" three full   *)
(* stops, "MARU" the Japanese full stop, "DOT" a full stop, "KANA" and     *)
(* "HAI" runs of Japanese letters, and the words of LatinWords runs of     *)
(* the letters A-Z a-z.                                                    *)
(***************************************************************************)
LatinWords == {"Alice", "Bob", "N", "hello", "Okay"}
\* the characters "。！？…!?" a Japanese line may end with
JaEndings == {"MARU", "ELLIPSIS"}

MONOLOGUE_MODES == {"wisdom", "fact"}
\* the keys of MODE_GUIDE
Modes == {"dialogue", "howto", "listicle", "wisdom", "fact", "qa"}

RECURSIVE LStrip(_)
LStrip(t) == IF t # <<>> /\ t[1] = "SP" THEN LStrip(Tail(t)) ELSE t
RECURSIVE RStrip(_)
RStrip(t) == IF t # <<>> /\ t[Len(t)] = "SP" THEN RStrip(SubSeq(t, 1, Len(t) - 1)) ELSE t
\* str.strip()
Strip(t) == RStrip(LStrip(t))

\* l.startswith(label + ":")
StartsWith(t, label) == Len(t) >= 2 /\ t[1] = label /\ t[2] = "COLON"

\* ":" in ln
HasColon(t) == \E i \in 1..Len(t) : t[i] = "COLON"
FirstColon(t) == CHOOSE i \in 1..Len(t) : t[i] = "COLON" /\ \A j \in 1..(i - 1) : t[j] # "COLON"
\* ln.split(":", 1)[0] and [1]
BeforeColon(t) == SubSeq(t, 1, FirstColon(t) - 1)
AfterColon(t) == SubSeq(t, FirstColon(t) + 1, Len(t))

IsNotLatin(tok) == tok \notin LatinWords
\* re.sub(r"[A-Za-z]+", "", txt)
DropLatin(t) == SelectSeq(t, IsNotLatin)

RECURSIVE ReplaceTok(_, _, _)
\* str.replace for one-token patterns
ReplaceTok(t, old, new) ==
    IF t = <<>> THEN <<>>
    ELSE <<(IF t[1] = old THEN new ELSE t[1])>> \o ReplaceTok(Tail(t), old, new)

RECURSIVE SpaceColons(_)
\* re.sub(r"\s*:\s*", ": ", txt)
SpaceColons(t) ==
    IF t = <<>> THEN <<>>
    ELSE IF t[1] = "COLON" THEN <<"COLON", "SP">> \o SpaceColons(LStrip(Tail(t)))
    ELSE IF t[1] = "SP" /\ LStrip(t) # <<>> /\ LStrip(t)[1] = "COLON" THEN SpaceColons(LStrip(t))
    ELSE <<t[1]>> \o SpaceColons(Tail(t))

RECURSIVE SquashSpaces(_)
\* re.sub(r"\s+", " ", txt)
SquashSpaces(t) ==
    IF t = <<>> THEN <<>>
    ELSE IF t[1] = "SP" THEN <<"SP">> \o SquashSpaces(LStrip(t))
    ELSE <<t[1]>> \o SquashSpaces(Tail(t))

\* _sanitize_line(lang, text)
SanitizeLine(lang, text) ==
    IF lang = "ja"
    THEN LET t1 == DropLatin(Strip(text))
             t2 == ReplaceTok(ReplaceTok(t1, "DOTS", "MARU"), "ELLIPSIS", "MARU")
             t3 == Strip(SquashSpaces(SpaceColons(t2)))
         IN  IF t3 # <<>> /\ t3[Len(t3)] \notin JaEndings THEN Append(t3, "MARU") ELSE t3
    ELSE Strip(ReplaceTok(Strip(text), "ELLIPSIS", "DOTS"))

\* _fallback_line(lang)
FallbackLine(lang) == IF lang = "ja" THEN <<"HAI", "MARU">> ELSE <<"Okay", "DOT">>

OrFallbackNever(lang, txt) == txt
\* _sanitize_line(lang, txt) or _fallback_line(lang), txt already sanitized
OrFallback(lang, txt) == IF txt = <<>> THEN FallbackLine(lang) ELSE txt

\* is_monologue = mode in MONOLOGUE_MODES
IsMonologue == dlg_mode \in MONOLOGUE_MODES

\* the labels a line must start with to be kept
KeptLabels == IF IsMonologue THEN {"N"} ELSE {"Alice", "Bob"}
IsKept(l) == \E lab \in KeptLabels : StartsWith(Strip(l), lab)

RECURSIVE StripAll(_)
StripAll(ls) == IF ls = <<>> THEN <<>> ELSE <<Strip(ls[1])>> \o StripAll(Tail(ls))

WantedNoDouble == dlg_turns
\* the number of lines wanted: turns, or turns * 2 in the two-speaker modes
Wanted == IF IsMonologue THEN dlg_turns ELSE dlg_turns * 2

\* lines[:n] for n >= 0
Take(ls, n) == SubSeq(ls, 1, IF n < Len(ls) THEN n ELSE Len(ls))

\* the line appended when n lines are there and more are wanted
PadLine(n) ==
    IF IsMonologue THEN <<"N", "COLON">>
    ELSE IF n % 2 = 0 THEN <<"Alice", "COLON">> ELSE <<"Bob", "COLON">>

\* the raw lines the language model is taken to answer with
SampleLines ==
    { <<"Alice", "COLON", "SP", "hello">>,
      <<"Bob", "COLON", "SP", "KANA">>,
      <<"N", "COLON", "SP", "hello", "ELLIPSIS">>,
      <<"Alice", "COLON">>,
      <<"SP", "Bob", "COLON", "KANA", "SP", "COLON", "hello", "SP">>,
      <<"N", "COLON", "SP">>,
      <<"hello", "SP", "KANA">>,
      <<>> }

\* the answers the language model is taken to give when make_dialogue is
\* called from run_one: a full script, a short one, a monologue, nothing
RunResponses ==
    { << <<"Alice", "COLON", "SP", "hello">>, <<"Bob", "COLON", "SP", "KANA">> >>,
      << <<"Bob", "COLON", "SP", "KANA">> >>,
      << <<"N", "COLON", "SP", "hello", "ELLIPSIS">>, <<"N", "COLON", "SP">> >>,
      << >> }

\* the answers of the language model to one call
Responses == IF batch_pc = "off" THEN SeqsUpTo(SampleLines, MaxRawLines) ELSE RunResponses

\* make_dialogue has not been called
DlgIdle ==
    /\ dlg_lang = "en"
    /\ dlg_mode = "dialogue"
    /\ dlg_turns = 0
    /\ dlg_raw = <<>>
    /\ dlg_lines = <<>>
    /\ dlg_k = 0
    /\ dlg_result = <<>>
    /\ dlg_pc = "idle"

\* openai.chat.completions.create(...) raises: nothing catches it
DlgCallRaises ==
    /\ dlg_pc = "call"
    /\ dlg_pc' = "raised"
    /\ UNCHANGED <<dlg_lang, dlg_mode, dlg_turns, dlg_raw, dlg_lines, dlg_k, dlg_result>>
    /\ UNCHANGED notDlg

\* the call returns; raw = content or ""; raw_lines = raw.strip().splitlines()
DlgCallReturns ==
    /\ dlg_pc = "call"
    /\ dlg_raw' \in Responses
    /\ dlg_pc' = "select"
    /\ UNCHANGED <<dlg_lang, dlg_mode, dlg_turns, dlg_lines, dlg_k, dlg_result>>
    /\ UNCHANGED notDlg

\* lines = [l.strip() for l in raw_lines if l.strip().startswith(labels)]; lines = lines[:wanted]
DlgSelect ==
    /\ dlg_pc = "select"
    /\ dlg_lines' = Take(StripAll(SelectSeq(dlg_raw, IsKept)), Wanted)
    /\ dlg_pc' = "pad"
    /\ UNCHANGED <<dlg_lang, dlg_mode, dlg_turns, dlg_raw, dlg_k, dlg_result>>
    /\ UNCHANGED notDlg

\* while len(lines) < wanted: lines.append(label)
DlgPad ==
    /\ dlg_pc = "pad"
    /\ Len(dlg_lines) < Wanted
    /\ dlg_lines' = Append(dlg_lines, PadLine(Len(dlg_lines)))
    /\ UNCHANGED <<dlg_lang, dlg_mode, dlg_turns, dlg_raw, dlg_k, dlg_result, dlg_pc>>
    /\ UNCHANGED notDlg

\* the while loop ends
DlgPadDone ==
    /\ dlg_pc = "pad"
    /\ ~(Len(dlg_lines) < Wanted)
    /\ dlg_k' = 0
    /\ dlg_pc' = "convert"
    /\ UNCHANGED <<dlg_lang, dlg_mode, dlg_turns, dlg_raw, dlg_lines, dlg_result>>
    /\ UNCHANGED notDlg

\* one iteration of the loop over lines: split at the first colon, sanitize,
\* fall back to the filler line, append (speaker, text)
DlgConvert ==
    /\ dlg_pc = "convert"
    /\ dlg_k < Len(dlg_lines)
    /\ LET ln  == dlg_lines[dlg_k + 1]
           spk == IF IsMonologue THEN <<"N">>
                  ELSE IF HasColon(ln) THEN Strip(BeforeColon(ln))
                  ELSE IF dlg_k % 2 = 0 THEN <<"Alice">> ELSE <<"Bob">>
           txt == IF HasColon(ln) THEN Strip(AfterColon(ln)) ELSE <<>>
       IN  dlg_result' = Append(dlg_result,
                                [spk |-> spk, txt |-> OrFallback(dlg_lang, SanitizeLine(dlg_lang, txt))])
    /\ dlg_k' = dlg_k + 1
    /\ UNCHANGED <<dlg_lang, dlg_mode, dlg_turns, dlg_raw, dlg_lines, dlg_pc>>
    /\ UNCHANGED notDlg

\* return result
DlgReturn ==
    /\ dlg_pc = "convert"
    /\ dlg_k = Len(dlg_lines)
    /\ dlg_pc' = "returned"
    /\ UNCHANGED <<dlg_lang, dlg_mode, dlg_turns, dlg_raw, dlg_lines, dlg_k, dlg_result>>
    /\ UNCHANGED notDlg

(***************************************************************************)
(* run_all and run_one (src/main.py)                                       *)
(***************************************************************************)
\* the lists COMBOS is taken from
ComboEn == [audio |-> "en", subs |-> <<"en", "ja">>]
ComboJa == [audio |-> "ja", subs |-> <<"ja">>]
ComboLists == { <<ComboEn>>, <<ComboEn, ComboJa>>, <<ComboJa, ComboEn>> }

\* the lengths in ms of the clips the TTS service is taken to return: with
\* the gap of 120 ms, 30000 and 28760 fill the 59000 ms exactly, 30000 and
\* 28800 leave room for part of a gap, 30000 twice does not fit
RunDurs == {28760, 28800, 30000}
\* the length of the silent clip of the vocab mode
SILENT_SECOND_MS == 900

\* TEMP/"lines.json": no file, a file left by an earlier process, the file with given rows
NoManifest == [exists |-> FALSE, rows |-> <<>>]
StaleManifest == [exists |-> TRUE, rows |-> << [spk |-> <<"N">>, cells |-> <<>>, dur |-> 1] >>]
Manifest(rows) == [exists |-> TRUE, rows |-> rows]

\* run_all is not running
RunIdle ==
    /\ combos = <<>>
    /\ content_mode = "dialogue"
    /\ silent_second = FALSE
    /\ lines_only = FALSE
    /\ do_upload = FALSE
    /\ turns_arg = 0
    /\ combo_i = 0
    /\ batch_pc = "off"
    /\ run_pc = "idle"
    /\ run_err = "none"
    /\ stages = <<>>
    /\ batch_log = <<>>
    /\ dialogue = <<>>
    /\ valid_dialogue = <<>>
    /\ clips = <<>>
    /\ sub_rows = <<>>
    /\ run_durs = <<>>
    /\ lines_json = NoManifest
    /\ manifest_writes = 0
    /\ videos = <<>>
    /\ uploads = <<>>

\* the combo run_one is running for
Combo == combos[combo_i + 1]

\* translate(line, lang): the text line rendered in language lang
Translate(line, lang) == <<"TR", lang>> \o line

\* the vocabulary word and the example sentences of the vocab mode
VocabWord == <<"hello">>
ExampleFallback == <<"practice", "SP", "hello">>
ExampleSentences == { <<"hello", "SP", "KANA">>, <<>>, ExampleFallback }

\* [(spk, line) for (spk, line) in dialogue if line.strip()]
NonBlank(e) == Strip(e.txt) # <<>>
ValidOf(dlg) == SelectSeq(dlg, NonBlank)

RunOneStartKeepsTemp ==
    /\ batch_pc = "loop"
    /\ run_pc = "idle"
    /\ combo_i < Len(combos)
    /\ run_pc' = "script"
    /\ run_err' = "none"
    /\ stages' = <<"reset">>
    /\ batch_log' = Append(batch_log, [combo |-> combo_i + 1, outcome |-> "running"])
    /\ dialogue' = <<>> /\ valid_dialogue' = <<>> /\ sub_rows' = <<>> /\ run_durs' = <<>>
    /\ clips' = <<>>
    /\ manifest_writes' = 0
    /\ mp_paths' = <<>> /\ gap_ms' = DEFAULT_GAP_MS /\ max_ms' = MAX_SHORTS_MS
    /\ idx' = 0 /\ elapsed' = 0 /\ combined' = <<>> /\ new_durs' = <<>> /\ pc' = "idle"
    /\ fx_dir' = TRUE /\ fx_i' = 0 /\ fx_attempts' = <<>> /\ fx_pc' = "idle"
    /\ bg_topic' = "" /\ img_bytes' = "none" /\ bg_log' = <<>> /\ bg_exc' = "none"
    /\ bg_ret' = "none" /\ bg_pc' = "idle"
    /\ dlg_lang' = "en" /\ dlg_mode' = "dialogue" /\ dlg_turns' = 0 /\ dlg_raw' = <<>>
    /\ dlg_lines' = <<>> /\ dlg_k' = 0 /\ dlg_result' = <<>> /\ dlg_pc' = "idle"
    /\ UNCHANGED <<cfgVars, combo_i, batch_pc, videos, uploads, ffmpeg_found, unsplash_key>>
    /\ UNCHANGED <<lines_json, full_raw, full_mp3, bg_png>>

\* the loop of run_all takes the next combo and calls run_one: reset_temp()
\* removes everything under TEMP; the locals of earlier calls are gone
RunOneStart ==
    /\ batch_pc = "loop"
    /\ run_pc = "idle"
    /\ combo_i < Len(combos)
    /\ run_pc' = "script"
    /\ run_err' = "none"
    /\ stages' = <<"reset">>
    /\ batch_log' = Append(batch_log, [combo |-> combo_i + 1, outcome |-> "running"])
    /\ dialogue' = <<>> /\ valid_dialogue' = <<>> /\ sub_rows' = <<>> /\ run_durs' = <<>>
    /\ clips' = <<>>
    /\ lines_json' = NoManifest
    /\ manifest_writes' = 0
    /\ full_raw' = NoFile
    /\ full_mp3' = NoOut
    /\ bg_png' = NoPng
    /\ mp_paths' = <<>> /\ gap_ms' = DEFAULT_GAP_MS /\ max_ms' = MAX_SHORTS_MS
    /\ idx' = 0 /\ elapsed' = 0 /\ combined' = <<>> /\ new_durs' = <<>> /\ pc' = "idle"
    /\ fx_dir' = TRUE /\ fx_i' = 0 /\ fx_attempts' = <<>> /\ fx_pc' = "idle"
    /\ bg_topic' = "" /\ img_bytes' = "none" /\ bg_log' = <<>> /\ bg_exc' = "none"
    /\ bg_ret' = "none" /\ bg_pc' = "idle"
    /\ dlg_lang' = "en" /\ dlg_mode' = "dialogue" /\ dlg_turns' = 0 /\ dlg_raw' = <<>>
    /\ dlg_lines' = <<>> /\ dlg_k' = 0 /\ dlg_result' = <<>> /\ dlg_pc' = "idle"
    /\ UNCHANGED <<cfgVars, combo_i, batch_pc, videos, uploads, ffmpeg_found, unsplash_key>>

\* sub_rows = [[] for _ in subs]
EmptyRows == [r \in 1..Len(Combo.subs) |-> <<>>]

\* CONTENT_MODE == "vocab": one block of three lines per vocabulary word,
\* the third the example sentence _gen_example_sentence returns
RunVocabScript ==
    /\ run_pc = "script"
    /\ content_mode = "vocab"
    /\ \E ex \in ExampleSentences :
         /\ dialogue' = << [spk |-> <<"N">>, txt |-> VocabWord],
                           [spk |-> <<"N">>, txt |-> VocabWord],
                           [spk |-> <<"N">>, txt |-> ex] >>
         /\ valid_dialogue' = ValidOf(dialogue')
    /\ sub_rows' = EmptyRows
    /\ stages' = Append(stages, "script")
    /\ run_pc' = "synth"
    /\ UNCHANGED <<cfgVars, combo_i, batch_pc, run_err, batch_log, clips, run_durs, lines_json,
                   manifest_writes, videos, uploads>>
    /\ UNCHANGED <<packerVars, fxVars, bgVars, dlgVars>>

\* otherwise: dialogue = make_dialogue(topic_for_dialogue, audio_lang, turns, ..., mode=CONTENT_MODE)
RunCallDialogue ==
    /\ run_pc = "script"
    /\ content_mode # "vocab"
    /\ dlg_lang' = Combo.audio
    /\ dlg_mode' = content_mode
    /\ dlg_turns' = turns_arg
    /\ dlg_pc' = "call"
    /\ run_pc' = "dialogue"
    /\ UNCHANGED <<dlg_raw, dlg_lines, dlg_k, dlg_result>>
    /\ UNCHANGED <<cfgVars, combo_i, batch_pc, run_err, stages, batch_log, dialogue, valid_dialogue,
                   clips, sub_rows, run_durs, lines_json, manifest_writes, videos, uploads>>
    /\ UNCHANGED <<packerVars, fxVars, bgVars>>

\* make_dialogue returned: valid_dialogue keeps the lines that are not blank
RunDialogueReturned ==
    /\ run_pc = "dialogue"
    /\ dlg_pc = "returned"
    /\ dialogue' = dlg_result
    /\ valid_dialogue' = ValidOf(dlg_result)
    /\ sub_rows' = EmptyRows
    /\ stages' = Append(stages, "script")
    /\ run_pc' = "synth"
    /\ UNCHANGED <<cfgVars, combo_i, batch_pc, run_err, batch_log, clips, run_durs, lines_json,
                   manifest_writes, videos, uploads>>
    /\ UNCHANGED <<packerVars, fxVars, bgVars, dlgVars>>

\* an exception leaves run_one: no statement of run_one is inside a try
Raise(what) ==
    /\ run_err' = what
    /\ run_pc' = "failed"
    /\ batch_log' = [batch_log EXCEPT ![Len(batch_log)].outcome = "raised"]

\* return: run_one ends normally
Return ==
    /\ run_pc' = "idle"
    /\ combo_i' = combo_i + 1
    /\ batch_log' = [batch_log EXCEPT ![Len(batch_log)].outcome = "returned"]

\* make_dialogue raised
RunDialogueRaised ==
    /\ run_pc = "dialogue"
    /\ dlg_pc = "raised"
    /\ Raise("llm")
    /\ UNCHANGED <<cfgVars, combo_i, batch_pc, stages, dialogue, valid_dialogue,
                   clips, sub_rows, run_durs, lines_json, manifest_writes, videos, uploads>>
    /\ UNCHANGED <<packerVars, fxVars, bgVars, dlgVars>>

\* the line the loop over valid_dialogue is at (enumerate(valid_dialogue, 1))
SynthIndex == Len(clips) + 1

\* CONTENT_MODE == "vocab" and VOCAB_SILENT_SECOND == "1" and i % 3 == 2
IsSilentSecond(i) == content_mode = "vocab" /\ silent_second /\ i % 3 = 2

\* the cells of line i: the line itself for the audio language, its translation otherwise
SubCell(line, lang) == IF lang = Combo.audio THEN line ELSE Translate(line, lang)

\* one iteration of the loop: the clip is written, then one cell is appended per subtitle language
RunSynthLine ==
    /\ run_pc = "synth"
    /\ SynthIndex <= Len(valid_dialogue)
    /\ \E d \in (IF IsSilentSecond(SynthIndex) THEN {SILENT_SECOND_MS} ELSE RunDurs) :
         clips' = Append(clips, d)
    /\ sub_rows' = [r \in 1..Len(Combo.subs) |->
                       Append(sub_rows[r], SubCell(valid_dialogue[SynthIndex].txt, Combo.subs[r]))]
    /\ UNCHANGED <<cfgVars, combo_i, batch_pc, run_pc, run_err, stages, batch_log, dialogue,
                   valid_dialogue, run_durs, lines_json, manifest_writes, videos, uploads>>
    /\ UNCHANGED <<packerVars, fxVars, bgVars, dlgVars>>

\* speak(...) raises: client.audio.speech.create is not inside a try
RunSpeakRaises ==
    /\ run_pc = "synth"
    /\ SynthIndex <= Len(valid_dialogue)
    /\ ~IsSilentSecond(SynthIndex)
    /\ Raise("tts")
    /\ UNCHANGED <<cfgVars, combo_i, batch_pc, stages, dialogue, valid_dialogue,
                   clips, sub_rows, run_durs, lines_json, manifest_writes, videos, uploads>>
    /\ UNCHANGED <<packerVars, fxVars, bgVars, dlgVars>>

\* the loop ends: new_durs = _concat_trim_to(mp_parts, MAX_SHORTS_SEC, gap_ms=120) is called
RunCallPack ==
    /\ run_pc = "synth"
    /\ SynthIndex > Len(valid_dialogue)
    /\ mp_paths' = clips
    /\ gap_ms' = DEFAULT_GAP_MS
    /\ max_ms' = MAX_SHORTS_MS
    /\ idx' = 0 /\ elapsed' = 0 /\ combined' = <<>> /\ new_durs' = <<>>
    /\ pc' = "loop"
    /\ stages' = Append(stages, "synth")
    /\ run_pc' = "pack"
    /\ UNCHANGED full_raw
    /\ UNCHANGED <<cfgVars, combo_i, batch_pc, run_err, batch_log, dialogue, valid_dialogue,
                   clips, sub_rows, run_durs, lines_json, manifest_writes, videos, uploads>>
    /\ UNCHANGED <<fxVars, bgVars, dlgVars>>

\* _concat_trim_to returned new_durs; enhance(TEMP/"full_raw.mp3", TEMP/"full.mp3") is called
RunCallEnhance ==
    /\ run_pc = "pack"
    /\ pc = "done"
    /\ run_durs' = new_durs
    /\ fx_i' = 0 /\ fx_attempts' = <<>>
    /\ fx_pc' = "start"
    /\ stages' = Append(stages, "pack")
    /\ run_pc' = "enhance"
    /\ UNCHANGED <<ffmpeg_found, fx_dir, full_mp3>>
    /\ UNCHANGED <<cfgVars, combo_i, batch_pc, run_err, batch_log, dialogue, valid_dialogue,
                   clips, sub_rows, lines_json, manifest_writes, videos, uploads>>
    /\ UNCHANGED <<packerVars, bgVars, dlgVars>>

\* enhance raised
RunEnhanceRaised ==
    /\ run_pc = "enhance"
    /\ fx_pc = "raised"
    /\ Raise("ffmpeg")
    /\ UNCHANGED <<cfgVars, combo_i, batch_pc, stages, dialogue, valid_dialogue,
                   clips, sub_rows, run_durs, lines_json, manifest_writes, videos, uploads>>
    /\ UNCHANGED <<packerVars, fxVars, bgVars, dlgVars>>

\* the topic of the run, and the query of the background image: the first
\* line in the vocab mode when there is one, the topic otherwise
RunTopic == "hotel"
BgQuery == IF content_mode = "vocab" /\ valid_dialogue # <<>> THEN "hello" ELSE RunTopic

\* enhance returned; fetch_bg(..., TEMP/"bg.png") is called
RunCallFetch ==
    /\ run_pc = "enhance"
    /\ fx_pc = "returned"
    /\ bg_topic' = BgQuery
    /\ img_bytes' = "none" /\ bg_log' = <<>> /\ bg_exc' = "none" /\ bg_ret' = "none"
    /\ bg_pc' = "start"
    /\ stages' = Append(stages, "enhance")
    /\ run_pc' = "fetch"
    /\ UNCHANGED <<unsplash_key, bg_png>>
    /\ UNCHANGED <<cfgVars, combo_i, batch_pc, run_err, batch_log, dialogue, valid_dialogue,
                   clips, sub_rows, run_durs, lines_json, manifest_writes, videos, uploads>>
    /\ UNCHANGED <<packerVars, fxVars, dlgVars>>

\* valid_dialogue[:len(new_durs)]
Truncated(vd, durs) == Take(vd, Len(durs))

\* the rows of lines.json: zip(valid_dialogue, new_durs) stops at the shorter list;
\* row i is [spk, sub_rows[0][i], ..., sub_rows[len(subs)-1][i], dur]
RowCount(vd, durs) == IF Len(vd) <= Len(durs) THEN Len(vd) ELSE Len(durs)
LinesDataClipLengths(vd, durs) ==
    [i \in 1..RowCount(vd, durs) |->
        [spk   |-> vd[i].spk,
         cells |-> [r \in 1..Len(Combo.subs) |-> sub_rows[r][i]],
         dur   |-> clips[i]]]
LinesDataFirstCells(vd, durs) ==
    [i \in 1..RowCount(vd, durs) |->
        [spk   |-> vd[i].spk,
         cells |-> [r \in 1..Len(Combo.subs) |-> sub_rows[r][1]],
         dur   |-> durs[i]]]
LinesData(vd, durs) ==
    [i \in 1..RowCount(vd, durs) |->
        [spk   |-> vd[i].spk,
         cells |-> [r \in 1..Len(Combo.subs) |-> sub_rows[r][i]],
         dur   |-> durs[i]]]

StopAfterManifestNever == FALSE
\* if args.lines_only: return
StopAfterManifest == lines_only

\* fetch_bg returned; valid_dialogue is cut to len(new_durs), lines.json is
\* written; with --lines-only run_one returns here
RunManifest ==
    /\ run_pc = "fetch"
    /\ bg_pc = "returned"
    /\ valid_dialogue' = Truncated(valid_dialogue, run_durs)
    /\ lines_json' = Manifest(LinesData(valid_dialogue', run_durs))
    /\ manifest_writes' = manifest_writes + 1
    /\ stages' = Append(Append(stages, "fetch"), "manifest")
    /\ IF StopAfterManifest
       THEN Return
       ELSE run_pc' = "thumb" /\ UNCHANGED <<combo_i, batch_log>>
    /\ UNCHANGED <<cfgVars, batch_pc, run_err, dialogue, clips, sub_rows, run_durs, videos, uploads>>
    /\ UNCHANGED <<packerVars, fxVars, bgVars, dlgVars>>

\* make_thumbnail(topic, thumb_lang, thumb)
RunThumbnail ==
    /\ run_pc = "thumb"
    /\ stages' = Append(stages, "thumbnail")
    /\ run_pc' = "render"
    /\ UNCHANGED <<cfgVars, combo_i, batch_pc, run_err, batch_log, dialogue, valid_dialogue,
                   clips, sub_rows, run_durs, lines_json, manifest_writes, videos, uploads>>
    /\ UNCHANGED <<packerVars, fxVars, bgVars, dlgVars>>

\* the file the renderer is asked to write: audio_lang-subs_stamp.mp4
FinalMp4 == [combo |-> combo_i + 1, audio |-> Combo.audio, subs |-> Combo.subs]

\* subprocess.run(cmd, check=True): chunk_builder.py reads lines.json, full.mp3
\* and bg.png; a nonzero exit code raises CalledProcessError
RunRender ==
    /\ run_pc = "render"
    /\ \E rc \in ExitCodes :
         IF rc = 0
         THEN /\ videos' = Append(videos, FinalMp4)
              /\ stages' = Append(stages, "render")
              /\ IF do_upload
                 THEN run_pc' = "upload" /\ UNCHANGED <<combo_i, batch_log>>
                 ELSE Return
              /\ UNCHANGED run_err
         ELSE /\ Raise("render")
              /\ UNCHANGED <<videos, stages, combo_i>>
    /\ UNCHANGED <<cfgVars, batch_pc, dialogue, valid_dialogue, clips, sub_rows, run_durs,
                   lines_json, manifest_writes, uploads>>
    /\ UNCHANGED <<packerVars, fxVars, bgVars, dlgVars>>

\* make_title, make_desc, make_tags, upload(...): the calls to the language
\* model in make_title and make_desc are not inside a try
RunUpload ==
    /\ run_pc = "upload"
    /\ \E o \in {"ok", "title"} :
         IF o = "ok"
         THEN /\ uploads' = Append(uploads, FinalMp4)
              /\ stages' = Append(stages, "upload")
              /\ Return
              /\ UNCHANGED run_err
         ELSE /\ Raise(o)
              /\ UNCHANGED <<uploads, stages, combo_i>>
    /\ UNCHANGED <<cfgVars, batch_pc, dialogue, valid_dialogue, clips, sub_rows, run_durs,
                   lines_json, manifest_writes, videos>>
    /\ UNCHANGED <<packerVars, fxVars, bgVars, dlgVars>>

\* the loop of run_all is over: run_all returns
RunAllReturn ==
    /\ batch_pc = "loop"
    /\ run_pc = "idle"
    /\ combo_i = Len(combos)
    /\ batch_pc' = "finished"
    /\ UNCHANGED <<cfgVars, combo_i, run_pc, run_err, stages, batch_log, dialogue, valid_dialogue,
                   clips, sub_rows, run_durs, lines_json, manifest_writes, videos, uploads>>
    /\ UNCHANGED <<packerVars, fxVars, bgVars, dlgVars>>

\* run_one raised: the call in the loop of run_all is not inside a try, the
\* exception leaves run_all and the remaining combos are not run
RunAllPropagates ==
    /\ batch_pc = "loop"
    /\ run_pc = "failed"
    /\ batch_pc' = "aborted"
    /\ UNCHANGED <<cfgVars, combo_i, run_pc, run_err, stages, batch_log, dialogue, valid_dialogue,
                   clips, sub_rows, run_durs, lines_json, manifest_writes, videos, uploads>>
    /\ UNCHANGED <<packerVars, fxVars, bgVars, dlgVars>>

Init ==
    /\ mp_paths \in SeqsUpTo(Durs, MaxClips)
    /\ gap_ms \in Gaps
    /\ max_ms \in Budgets
    /\ idx = 0
    /\ elapsed = 0
    /\ combined = <<>>
    /\ new_durs = <<>>
    /\ full_raw \in {NoFile, PriorFile}
    /\ pc = "loop"
    /\ FxIdle
    /\ BgIdle
    /\ DlgIdle
    /\ RunIdle

\* remain <= 0: break
BreakNoRemain ==
    /\ pc = "loop"
    /\ idx < N
    /\ RemainExhausted(Remain)
    /\ pc' = "export"
    /\ UNCHANGED <<mp_paths, gap_ms, max_ms, idx, elapsed, combined, new_durs, full_raw>>
    /\ UNCHANGED notPacker

\* need <= remain: the clip and its gap in full
LoopFull ==
    /\ pc = "loop"
    /\ idx < N
    /\ ~RemainExhausted(Remain)
    /\ Fits(Need(idx), Remain)
    /\ LET seg_ms == SegMs(idx)
           extra  == Extra(idx)
       IN  /\ combined' = IF extra # 0
                          THEN combined \o <<ClipPiece(idx + 1, seg_ms), Silent(extra)>>
                          ELSE Append(combined, ClipPiece(idx + 1, seg_ms))
           /\ elapsed' = IF extra # 0 THEN elapsed + seg_ms + extra ELSE elapsed + seg_ms
           /\ new_durs' = Append(new_durs, seg_ms + extra)
    /\ idx' = idx + 1
    /\ UNCHANGED <<mp_paths, gap_ms, max_ms, full_raw, pc>>
    /\ UNCHANGED notPacker

TrimClipRecordsWhole ==
    /\ pc = "loop"
    /\ idx < N
    /\ ~RemainExhausted(Remain)
    /\ ~Fits(Need(idx), Remain)
    /\ Remain <= SegMs(idx)
    /\ combined' = Append(combined, ClipPiece(idx + 1, SegSlice(SegMs(idx), Remain)))
    /\ new_durs' = Append(new_durs, SegMs(idx))
    /\ elapsed' = elapsed + Remain
    /\ pc' = "export"
    /\ UNCHANGED <<mp_paths, gap_ms, max_ms, idx, full_raw>>
    /\ UNCHANGED notPacker

\* need > remain and remain <= seg_ms: the clip cut to its first remain ms, break
TrimClip ==
    /\ pc = "loop"
    /\ idx < N
    /\ ~RemainExhausted(Remain)
    /\ ~Fits(Need(idx), Remain)
    /\ Remain <= SegMs(idx)
    /\ combined' = Append(combined, ClipPiece(idx + 1, SegSlice(SegMs(idx), Remain)))
    /\ new_durs' = Append(new_durs, Remain)
    /\ elapsed' = elapsed + Remain
    /\ pc' = "export"
    /\ UNCHANGED <<mp_paths, gap_ms, max_ms, idx, full_raw>>
    /\ UNCHANGED notPacker

\* need > remain and remain > seg_ms: the clip in full and part of its gap, break
TrimGap ==
    /\ pc = "loop"
    /\ idx < N
    /\ ~RemainExhausted(Remain)
    /\ ~Fits(Need(idx), Remain)
    /\ ~(Remain <= SegMs(idx))
    /\ LET seg_ms   == SegMs(idx)
           used_gap == UsedGap(Remain, seg_ms, Extra(idx))
       IN  /\ combined' = IF used_gap > 0
                          THEN combined \o <<ClipPiece(idx + 1, seg_ms), Silent(used_gap)>>
                          ELSE Append(combined, ClipPiece(idx + 1, seg_ms))
           /\ new_durs' = Append(new_durs, seg_ms + used_gap)
           /\ elapsed' = elapsed + seg_ms + used_gap
    /\ pc' = "export"
    /\ UNCHANGED <<mp_paths, gap_ms, max_ms, idx, full_raw>>
    /\ UNCHANGED notPacker

\* the for loop runs out of clips
LoopEnd ==
    /\ pc = "loop"
    /\ idx = N
    /\ pc' = "export"
    /\ UNCHANGED <<mp_paths, gap_ms, max_ms, idx, elapsed, combined, new_durs, full_raw>>
    /\ UNCHANGED notPacker

\* unlink(missing_ok=True); combined.export(...); return new_durs
Export ==
    /\ pc = "export"
    /\ full_raw' = [exists |-> TRUE, track |-> combined]
    /\ pc' = "done"
    /\ UNCHANGED <<mp_paths, gap_ms, max_ms, idx, elapsed, combined, new_durs>>
    /\ UNCHANGED notPacker

Next ==
    \/ BreakNoRemain
    \/ LoopFull
    \/ TrimClip
    \/ TrimGap
    \/ LoopEnd
    \/ Export

Spec == Init /\ [][Next]_vars

(***************************************************************************)
(* Stand-alone specifications of the adapters                              *)
(***************************************************************************)
\* _concat_trim_to has not been called
PackerIdle ==
    /\ mp_paths = <<>> /\ gap_ms = DEFAULT_GAP_MS /\ max_ms = MAX_SHORTS_MS
    /\ idx = 0 /\ elapsed = 0 /\ combined = <<>> /\ new_durs = <<>>
    /\ pc = "idle"

\* the merged tracks enhance is given in the stand-alone specification
SampleTracks ==
    { <<ClipPiece(1, d)>> : d \in {900, 5000} }
      \cup { <<ClipPiece(1, 900), Silent(DEFAULT_GAP_MS), ClipPiece(2, d)>> : d \in {900, 5000} }

\* a call enhance(TEMP/"full_raw.mp3", TEMP/"full.mp3") in any environment
InitEnhance ==
    /\ ffmpeg_found \in BOOLEAN
    /\ fx_dir \in BOOLEAN
    /\ full_mp3 \in {NoOut, StaleOut}
    /\ fx_i = 0
    /\ fx_attempts = <<>>
    /\ fx_pc = "start"
    /\ full_raw \in {NoFile} \cup {[exists |-> TRUE, track |-> t] : t \in SampleTracks}
    /\ PackerIdle
    /\ BgIdle
    /\ DlgIdle
    /\ RunIdle

NextEnhance ==
    \/ EnhanceNoFfmpeg
    \/ EnhancePrepare
    \/ TryChain
    \/ PlainReencode

SpecEnhance == InitEnhance /\ [][NextEnhance]_vars

\* a call fetch(topic, TEMP/"bg.png") in any environment
InitFetch ==
    /\ unsplash_key \in BOOLEAN
    /\ bg_topic \in Topics
    /\ bg_png \in {NoPng, StalePng}
    /\ img_bytes = "none"
    /\ bg_log = <<>>
    /\ bg_exc = "none"
    /\ bg_ret = "none"
    /\ bg_pc = "start"
    /\ PackerIdle
    /\ full_raw = NoFile
    /\ FxIdle
    /\ DlgIdle
    /\ RunIdle

NextFetch ==
    \/ FetchNoKey
    \/ FetchSearch
    \/ FetchDownload
    \/ FetchResize
    \/ FetchExcept

SpecFetch == InitFetch /\ [][NextFetch]_vars

\* a call make_dialogue(topic, lang, turns, seed_phrase, mode)
InitDialogue ==
    /\ dlg_lang \in {"ja", "en"}
    /\ dlg_mode \in {"dialogue", "qa", "fact"}
    /\ dlg_turns \in 0..MaxTurns
    /\ dlg_raw = <<>>
    /\ dlg_lines = <<>>
    /\ dlg_k = 0
    /\ dlg_result = <<>>
    /\ dlg_pc = "call"
    /\ PackerIdle
    /\ full_raw = NoFile
    /\ FxIdle
    /\ BgIdle
    /\ RunIdle

NextDialogue ==
    \/ DlgCallRaises
    \/ DlgCallReturns
    \/ DlgSelect
    \/ DlgPad
    \/ DlgPadDone
    \/ DlgConvert
    \/ DlgReturn

SpecDialogue == InitDialogue /\ [][NextDialogue]_vars

\* run_all(topic, turns, privacy, do_upload, chunk_size) in any environment
\* the values of --turns
RunTurns == {0, 1}
ContentModes == {"dialogue", "fact", "vocab"}
InitRun ==
    /\ combos \in ComboLists
    /\ content_mode \in ContentModes
    /\ silent_second \in (IF content_mode = "vocab" THEN BOOLEAN ELSE {FALSE})
    /\ lines_only \in BOOLEAN
    /\ do_upload \in BOOLEAN
    /\ turns_arg \in RunTurns
    /\ combo_i = 0
    /\ batch_pc = "loop"
    /\ run_pc = "idle"
    /\ run_err = "none"
    /\ stages = <<>>
    /\ batch_log = <<>>
    /\ dialogue = <<>>
    /\ valid_dialogue = <<>>
    /\ clips = <<>>
    /\ sub_rows = <<>>
    /\ run_durs = <<>>
    /\ lines_json \in {NoManifest, StaleManifest}
    /\ manifest_writes = 0
    /\ videos = <<>>
    /\ uploads = <<>>
    /\ PackerIdle
    /\ full_raw \in {NoFile, PriorFile}
    /\ ffmpeg_found \in BOOLEAN
    /\ fx_dir = TRUE /\ full_mp3 \in {NoOut, StaleOut} /\ fx_i = 0 /\ fx_attempts = <<>> /\ fx_pc = "idle"
    /\ unsplash_key \in BOOLEAN
    /\ bg_topic = "" /\ bg_png \in {NoPng, StalePng} /\ img_bytes = "none" /\ bg_log = <<>>
    /\ bg_exc = "none" /\ bg_ret = "none" /\ bg_pc = "idle"
    /\ DlgIdle

NextRun ==
    \/ RunOneStart
    \/ RunVocabScript
    \/ RunCallDialogue
    \/ DlgCallRaises
    \/ DlgCallReturns
    \/ DlgSelect
    \/ DlgPad
    \/ DlgPadDone
    \/ DlgConvert
    \/ DlgReturn
    \/ RunDialogueReturned
    \/ RunDialogueRaised
    \/ RunSynthLine
    \/ RunSpeakRaises
    \/ RunCallPack
    \/ BreakNoRemain
    \/ LoopFull
    \/ TrimClip
    \/ TrimGap
    \/ LoopEnd
    \/ Export
    \/ RunCallEnhance
    \/ EnhanceNoFfmpeg
    \/ EnhancePrepare
    \/ TryChain
    \/ PlainReencode
    \/ RunEnhanceRaised
    \/ RunCallFetch
    \/ FetchNoKey
    \/ FetchSearch
    \/ FetchDownload
    \/ FetchResize
    \/ FetchExcept
    \/ RunManifest
    \/ RunThumbnail
    \/ RunRender
    \/ RunUpload
    \/ RunAllReturn
    \/ RunAllPropagates

SpecRun == InitRun /\ [][NextRun]_vars

\* _concat_trim_to called on its own on any TEMP directory, or run_all
InitTemp == Init \/ InitRun
SpecTemp == InitTemp /\ [][NextRun]_vars

(***************************************************************************)
(* Quantities the properties of the packer are stated with                 *)
(***************************************************************************)
Min(a, b) == IF a <= b THEN a ELSE b

\* sum(d_i) + (N-1)*g, taken literally for every N >= 0
NaturalLiteral == SumSeq(mp_paths) + (N - 1) * gap_ms
\* the natural total: every clip and the N-1 gaps between them, 0 for no clips
NaturalTotal == IF N = 0 THEN 0 ELSE SumSeq(mp_paths) + (N - 1) * gap_ms

\* total duration of the merged track the packer wrote
WrittenTotal == TrackLen(full_raw.track)

\* positions of the clip pieces in a track
ClipPos(t) == {p \in 1..Len(t) : t[p].kind = "clip"}
IsClipPiece(x) == x.kind = "clip"
\* the clip pieces of a track, in order
ClipPieces(t) == SelectSeq(t, IsClipPiece)

\* the realized duration of clip i (1-based) when it and its gap are included in full
FullDur(i) == mp_paths[i] + (IF i < N THEN gap_ms ELSE 0)

(* C1: for all clips d_1..d_N (N >= 0), gap g and budget B, the merged     *)
(* track written by the packer lasts exactly min(B, sum(d_i) + (N-1)*g).   *)
(* This is the statement as made: for N = 0 and g > 0 it asks for a        *)
(* negative duration.                                                      *)
C1_Original ==
    pc = "done" => WrittenTotal = Min(max_ms, NaturalLiteral)

(* C1 (amended): the merged track written by the packer lasts exactly      *)
(* min(B, T), where T is sum(d_i) + (N-1)*g for N >= 1 and 0 for N = 0.    *)
C1_TotalIsMin ==
    pc = "done" => WrittenTotal = Min(max_ms, NaturalTotal)

\* the scenario [10000, 10000, 10000], g = 120, B = 25000 has been packed
C1_Witness ==
    /\ pc = "done"
    /\ mp_paths = <<10000, 10000, 10000>> /\ gap_ms = 120 /\ max_ms = 25000
    /\ new_durs = <<10120, 10120, 4760>>
    /\ WrittenTotal = 25000

(* C2: in every state of the packer (so after every loop iteration)        *)
(* elapsed <= B, and elapsed is both the length of the merged track built  *)
(* so far and the sum of the realized durations recorded so far.           *)
C2_ElapsedWithinBudget ==
    /\ elapsed <= max_ms
    /\ elapsed = TrackLen(combined)
    /\ elapsed = SumSeq(new_durs)

\* two iterations of three clips have run, the second one cut its gap short at the budget
C2_Witness ==
    /\ pc = "export"
    /\ Len(new_durs) = 2
    /\ N = 3
    /\ combined[Len(combined)].kind = "silence"
    /\ combined[Len(combined)].ms < gap_ms
    /\ elapsed = max_ms

(* C3: on completion the emitted total equals B iff the natural total      *)
(* sum(d_i) + (N-1)*g strictly exceeds B, and is strictly less than B      *)
(* otherwise.  This is the statement as made.                              *)
C3_Original ==
    pc = "done" =>
        /\ (WrittenTotal = max_ms) <=> (NaturalLiteral > max_ms)
        /\ ~(NaturalLiteral > max_ms) => WrittenTotal < max_ms

(* C3 (amended): on completion the emitted total equals B iff the natural  *)
(* total (0 for no clips) is at least B; when the natural total is below B *)
(* the emitted total is strictly less than B.                              *)
C3_EqualIffNaturalReaches ==
    pc = "done" =>
        /\ (WrittenTotal = max_ms) <=> (NaturalTotal >= max_ms)
        /\ NaturalTotal < max_ms => WrittenTotal < max_ms

\* two or more clips whose natural total is exactly the budget: nothing is cut
C3_Witness ==
    /\ pc = "done"
    /\ N >= 2
    /\ gap_ms > 0
    /\ NaturalTotal = max_ms
    /\ WrittenTotal = max_ms
    /\ Len(new_durs) = N

(* C4: if B >= sum(d_i) + (N-1)*g the packer includes every clip in full   *)
(* with every gap in full and returns exactly N realized durations,        *)
(* (d_i + g) for each clip but the last and d_N for the last.              *)
C4_AllInFull ==
    (pc = "done" /\ max_ms >= NaturalLiteral) =>
        /\ Len(new_durs) = N
        /\ \A i \in 1..N : new_durs[i] = FullDur(i)
        /\ Len(ClipPieces(full_raw.track)) = N
        /\ \A i \in 1..N : ClipPieces(full_raw.track)[i] = ClipPiece(i, mp_paths[i])
        /\ WrittenTotal = NaturalTotal

(* C5: if B < d_1 the output holds exactly one clip, cut to B ms, and the  *)
(* realized-duration list is the single entry B.  This is the statement as *)
(* made; it includes B = 0.                                                *)
C5_Original ==
    (pc = "done" /\ N >= 1 /\ max_ms < mp_paths[1]) =>
        /\ new_durs = <<max_ms>>
        /\ full_raw.track = <<ClipPiece(1, max_ms)>>

(* C5 (amended): if 0 < B < d_1 the output holds exactly one clip, cut to  *)
(* B ms, and the realized-duration list is the single entry B.             *)
C5_FirstClipCut ==
    (pc = "done" /\ N >= 1 /\ 0 < max_ms /\ max_ms < mp_paths[1]) =>
        /\ new_durs = <<max_ms>>
        /\ full_raw.track = <<ClipPiece(1, max_ms)>>

\* several clips, the first alone longer than a positive budget
C5_Witness ==
    /\ pc = "done"
    /\ N >= 2
    /\ 0 < max_ms /\ max_ms < mp_paths[1]
    /\ new_durs = <<max_ms>>

(* C6: the number of realized durations equals the number of input clips   *)
(* that have a piece in the merged track, is never more than N, and is 0   *)
(* when B = 0.                                                             *)
C6_OneEntryPerEmittedClip ==
    /\ Len(new_durs) = Cardinality({combined[p].src : p \in ClipPos(combined)})
    /\ Len(new_durs) = Len(ClipPieces(combined))
    /\ Len(new_durs) <= N
    /\ max_ms = 0 => Len(new_durs) = 0

\* three clips, the second one only partly in the track, the third one not at all
C6_Witness ==
    /\ pc = "done"
    /\ N = 3
    /\ Len(new_durs) = 2
    /\ new_durs[2] < mp_paths[2]
    /\ Len(ClipPieces(full_raw.track)) = 2

(* C7: a clip of natural duration 0 is never skipped: whenever             *)
(* elapsed + d_i + gap_i <= B holds when the loop reaches it (also a       *)
(* zero-length final clip reached with elapsed = B), the iteration records *)
(* a realized duration for it and consumes no clip budget.                 *)
C7_ZeroClipNotSkipped ==
    [][ (pc = "loop" /\ idx < N /\ SegMs(idx) = 0 /\ elapsed + Need(idx) <= max_ms)
          => /\ Len(new_durs') = Len(new_durs) + 1
             /\ new_durs'[Len(new_durs')] = Extra(idx)
             /\ elapsed' = elapsed + Extra(idx) ]_vars

(* C8: the emitted clips are exactly the first k input clips, in input     *)
(* order, for some k <= N; every emitted clip but the last emitted one is  *)
(* there in full and is followed by its full gap g; the last emitted one   *)
(* is a prefix of its clip; no later clip has a piece in the track.        *)
C8_PrefixInOrder ==
    LET cp == ClipPieces(combined)
        k  == Len(cp)
    IN  /\ k <= N
        /\ \A j \in 1..k : cp[j].src = j /\ cp[j].ms <= mp_paths[j]
        /\ \A p \in ClipPos(combined) :
              p < Len(combined) /\ (\E q \in ClipPos(combined) : q > p) =>
                  /\ combined[p].ms = mp_paths[combined[p].src]
                  /\ gap_ms > 0 => combined[p + 1] = Silent(gap_ms)
                  /\ gap_ms = 0 => combined[p + 1].kind = "clip"
        /\ \A p \in ClipPos(combined) : \A q \in ClipPos(combined) :
              p < q => combined[p].src < combined[q].src

\* three clips and a positive gap: two in full with their gaps, the third cut
C8_Witness ==
    /\ pc = "done"
    /\ N = 3
    /\ gap_ms > 0
    /\ Len(full_raw.track) = 5
    /\ full_raw.track[5].kind = "clip"
    /\ 0 < full_raw.track[5].ms /\ full_raw.track[5].ms < mp_paths[3]

(* The procedure of the specification (section 4.1, "Algorithm"): it tests *)
(* elapsed + need <= B first and remain <= 0 only when that fails.         *)
RECURSIVE SpecPack(_, _, _)
SpecPack(i, el, durs) ==
    IF i > N THEN [durs |-> durs, total |-> el]
    ELSE LET gap  == IF i < N THEN gap_ms ELSE 0
             need == mp_paths[i] + gap
             rem  == max_ms - el
         IN  IF el + need <= max_ms
             THEN SpecPack(i + 1, el + need, Append(durs, need))
             ELSE IF rem <= 0 THEN [durs |-> durs, total |-> el]
             ELSE IF rem <= mp_paths[i]
                  THEN [durs |-> Append(durs, rem), total |-> max_ms]
                  ELSE LET used_gap == IF rem - mp_paths[i] > 0 THEN rem - mp_paths[i] ELSE 0
                       IN  [durs  |-> Append(durs, mp_paths[i] + used_gap),
                            total |-> el + mp_paths[i] + used_gap]

(* C9: for every input the code and the procedure of the specification     *)
(* produce the same realized-duration list and the same emitted total.     *)
C9_RefinesSpecAlgorithm ==
    pc = "done" =>
        /\ new_durs = SpecPack(1, 0, <<>>).durs
        /\ WrittenTotal = SpecPack(1, 0, <<>>).total

(* C10: the merged track never ends with gap silence after its final       *)
(* emitted clip.  This is the statement as made.                           *)
C10_Original ==
    pc = "done" =>
        \/ full_raw.track = <<>>
        \/ full_raw.track[Len(full_raw.track)].kind = "clip"

(* C10 (amended): gap silence is only ever placed directly after an        *)
(* emitted clip that is not the last input clip, and is at most g long;    *)
(* the merged track ends with gap silence only when the budget is used up  *)
(* there (its total duration is B).                                        *)
C10_GapOnlyAfterNonLastClip ==
    pc = "done" =>
        LET t == full_raw.track
        IN  /\ \A p \in 1..Len(t) :
                  t[p].kind = "silence" =>
                      /\ p > 1
                      /\ t[p - 1].kind = "clip"
                      /\ t[p - 1].src < N
                      /\ t[p - 1].ms = mp_paths[t[p - 1].src]
                      /\ 0 < t[p].ms /\ t[p].ms <= gap_ms
            /\ (t # <<>> /\ t[Len(t)].kind = "silence") => WrittenTotal = max_ms

\* the track ends with a full gap because the next clip found no budget left
C10_Witness ==
    /\ pc = "done"
    /\ N >= 2
    /\ Len(new_durs) < N
    /\ full_raw.track # <<>>
    /\ full_raw.track[Len(full_raw.track)] = Silent(gap_ms)
    /\ WrittenTotal = max_ms

(***************************************************************************)
(* Properties of enhance (checked under SpecEnhance)                       *)
(***************************************************************************)
\* the filter chains that ran and exited non-zero
FailedChains == {fx_attempts[k].chain : k \in {j \in 1..Len(fx_attempts) :
                     fx_attempts[j].kind = "filter" /\ fx_attempts[j].rc # 0}}
PlainWasRun == \E k \in 1..Len(fx_attempts) : fx_attempts[k].kind = "plain"
\* the filters that normalize loudness
Normalizers == {"loudnorm", "dynaudnorm"}

(* C13: enhance runs the three variants of TRY_CHAINS strictly in list     *)
(* order, nothing runs after a run that exited 0 (first success wins), and *)
(* the plain re-encode is run if and only if all three variants failed.    *)
C13_ChainsInOrderFirstSuccessWins ==
    /\ Len(fx_attempts) <= 4
    /\ \A k \in 1..Len(fx_attempts) :
          /\ k <= 3 => fx_attempts[k].kind = "filter" /\ fx_attempts[k].chain = k
                       /\ fx_attempts[k].af = TRY_CHAINS[k]
          /\ k = 4 => fx_attempts[k].kind = "plain"
          /\ k < Len(fx_attempts) => fx_attempts[k].rc # 0
    /\ fx_pc = "returned" => /\ fx_attempts # <<>>
                             /\ fx_attempts[Len(fx_attempts)].rc = 0
    /\ (fx_pc \in {"returned", "raised"} /\ ffmpeg_found) =>
          (PlainWasRun <=> FailedChains = {1, 2, 3})

\* the third variant succeeded after two failures; no plain re-encode
C13_Witness ==
    /\ fx_pc = "returned"
    /\ Len(fx_attempts) = 3
    /\ fx_attempts[1].rc # 0 /\ fx_attempts[2].rc # 0 /\ fx_attempts[3].rc = 0
    /\ ~PlainWasRun

(* C14: in every execution where enhance raises, all filter-chain variants *)
(* and the plain re-encode were attempted and the plain re-encode exited   *)
(* non-zero.  This is the statement as made.                               *)
C14_Original ==
    fx_pc = "raised" =>
        /\ Len(fx_attempts) = 4
        /\ FailedChains = {1, 2, 3}
        /\ fx_attempts[4].kind = "plain" /\ fx_attempts[4].rc # 0

(* C14 (amended): in every execution where enhance raises, either ffmpeg   *)
(* was not found (and nothing was attempted), or all filter-chain variants *)
(* and the plain re-encode were attempted and the plain re-encode exited   *)
(* non-zero.                                                               *)
C14_RaisesOnlyAfterPlainFails ==
    fx_pc = "raised" =>
        \/ ~ffmpeg_found /\ fx_attempts = <<>>
        \/ /\ ffmpeg_found
           /\ Len(fx_attempts) = 4
           /\ FailedChains = {1, 2, 3}
           /\ fx_attempts[4].kind = "plain" /\ fx_attempts[4].rc # 0

\* ffmpeg is there, the three variants and the plain re-encode all failed
C14_Witness ==
    /\ fx_pc = "raised"
    /\ ffmpeg_found
    /\ Len(fx_attempts) = 4
    /\ fx_attempts[4] = PlainRun(1)

(* C15: when ffmpeg is missing, the only step enhance takes is to raise:   *)
(* no filter chain or re-encode is run and neither the output directory    *)
(* nor the output file is created or changed.                              *)
C15_MissingFfmpegFailsAtOnce ==
    [][ ~ffmpeg_found =>
           /\ fx_pc = "start" /\ fx_pc' = "raised"
           /\ fx_attempts' = <<>>
           /\ UNCHANGED <<fx_dir, full_mp3, fx_attempts, full_raw>> ]_vars

\* raised without ffmpeg: still no output directory, no output file, no run
C15_Witness ==
    /\ fx_pc = "raised"
    /\ ~ffmpeg_found
    /\ ~fx_dir
    /\ full_mp3 = NoOut
    /\ fx_attempts = <<>>

(* C16: whenever enhance returns successfully, the mastered track was      *)
(* produced by a filter chain that includes a loudness-normalization       *)
(* filter.  This is the statement as made (loudnorm and dynaudnorm both    *)
(* counted as loudness normalization).                                     *)
C16_Original ==
    fx_pc = "returned" =>
        /\ full_mp3.state = "ok"
        /\ full_mp3.af \cap Normalizers # {}

(* C16 (amended): loudness normalization is tried first and given up only  *)
(* on failure: the first ffmpeg run is always the loudnorm chain, and      *)
(* whenever enhance returns successfully the mastered track was produced   *)
(* either by a chain with a normalization filter (loudnorm or dynaudnorm), *)
(* or by the volume-only chain or the unfiltered plain re-encode after     *)
(* both normalizing chains had been run and had failed.                    *)
C16_NormalizationTriedFirst ==
    /\ fx_attempts # <<>> => "loudnorm" \in fx_attempts[1].af
    /\ fx_pc = "returned" =>
          /\ full_mp3.state = "ok"
          /\ \/ full_mp3.af \cap Normalizers # {}
             \/ /\ Len(fx_attempts) >= 3
                /\ \A k \in 1..2 : /\ fx_attempts[k].af \cap Normalizers # {}
                                   /\ fx_attempts[k].rc # 0

\* enhance returned a track that went through no filter at all
C16_Witness ==
    /\ fx_pc = "returned"
    /\ full_mp3.state = "ok"
    /\ ~full_mp3.filtered
    /\ full_mp3.af = {}
    /\ PlainWasRun

(***************************************************************************)
(* Properties of fetch (checked under SpecFetch)                           *)
(***************************************************************************)
\* the outcomes logged so far
BgOutcomes == {bg_log[k].outcome : k \in 1..Len(bg_log)}
\* the failures the claim names: network or HTTP error, no result, undecodable image
BgNamedFailures == {"network_error", "http_error", "no_result", "undecodable"}

(* C17: fetch never raises.  When the credential is missing, or a request  *)
(* failed (network or HTTP error), or the response had no result, or the   *)
(* image could not be decoded, it has written the solid 1080x1920          *)
(* placeholder and returned False; it returns True only when the remote    *)
(* image was fetched and written; without a credential it makes no         *)
(* network request.                                                        *)
C17_FetchNeverFails ==
    /\ bg_pc # "raised"
    /\ ~unsplash_key => bg_log = <<>>
    /\ bg_pc = "returned" =>
          /\ bg_ret \in BOOLEAN
          /\ (~unsplash_key \/ BgOutcomes \cap BgNamedFailures # {}) =>
                 /\ bg_ret = FALSE
                 /\ bg_png = [kind |-> "solid", w |-> 1080, h |-> 1920, query |-> ""]
          /\ bg_ret = TRUE =>
                 /\ unsplash_key
                 /\ BgOutcomes = {"ok"}
                 /\ Len(bg_log) = 3
                 /\ img_bytes = "image"
                 /\ bg_png.kind = "photo" /\ bg_png.query = bg_topic
                 /\ bg_png.w = 1080 /\ bg_png.h = 1920

\* the search answered without a result and the placeholder was written over
\* the file of an earlier run
C17_Witness ==
    /\ bg_pc = "returned"
    /\ unsplash_key
    /\ bg_log # <<>>
    /\ bg_log[Len(bg_log)].outcome = "no_result"
    /\ bg_ret = FALSE
    /\ bg_png = SolidImage

(***************************************************************************)
(* Properties of make_dialogue (checked under SpecDialogue)                *)
(***************************************************************************)
\* the lines of the response that carry a label of the mode
KeptRaw == SelectSeq(dlg_raw, IsKept)

(* C18: whatever lines the language model answers with (too few, too many, *)
(* unlabeled, empty), make_dialogue returns exactly turns*2 entries in the *)
(* two-speaker modes and exactly turns entries in wisdom and fact, every   *)
(* returned text is non-empty, and every entry for which the response had  *)
(* no labeled line carries the filler line of the language.                *)
C18_ExactCountNonEmpty ==
    dlg_pc = "returned" =>
        /\ Len(dlg_result) = IF dlg_mode \in {"wisdom", "fact"} THEN dlg_turns ELSE dlg_turns * 2
        /\ \A i \in 1..Len(dlg_result) :
              /\ Strip(dlg_result[i].txt) # <<>>
              /\ i > Len(KeptRaw) =>
                    dlg_result[i].txt = IF dlg_lang = "ja" THEN <<"HAI", "MARU">> ELSE <<"Okay", "DOT">>

\* a two-speaker call with turns = 2 whose answer had three lines, at most one
\* of them labeled: the missing lines were filled
C18_Witness ==
    /\ dlg_pc = "returned"
    /\ dlg_mode = "dialogue"
    /\ dlg_turns = 2
    /\ Len(dlg_raw) = 3
    /\ Len(KeptRaw) = 1
    /\ Len(dlg_result) = 4
    /\ dlg_result[4].txt = FallbackLine(dlg_lang)

(***************************************************************************)
(* Claims about run_one and run_all                                        *)
(***************************************************************************)
\* the combo of the run_one started last, and the dialogue lines of that run
\* that are not blank
LastCombo == combos[batch_log[Len(batch_log)].combo]
IsNonBlankEntry(e) == Strip(e.txt) # <<>>
NonBlankLines == SelectSeq(dialogue, IsNonBlankEntry)
\* run_one wrote lines.json in the run started last
ManifestWritten == manifest_writes > 0 /\ lines_json.exists

\* C11: once run_one has written lines.json, the manifest has exactly
\* len(new_durs) rows, and row i holds the speaker of the i-th non-blank
\* dialogue line, len(subs) subtitle cells that are the entries at index i of
\* the subtitle lists, and the i-th realized duration.
C11_ManifestRows ==
    ManifestWritten =>
        /\ Len(lines_json.rows) = Len(new_durs)
        /\ \A i \in 1..Len(lines_json.rows) :
             /\ i <= Len(NonBlankLines)
             /\ lines_json.rows[i].spk = NonBlankLines[i].spk
             /\ Len(lines_json.rows[i].cells) = Len(LastCombo.subs)
             /\ \A r \in 1..Len(LastCombo.subs) : lines_json.rows[i].cells[r] = sub_rows[r][i]
             /\ lines_json.rows[i].dur = new_durs[i]

\* C11 witness: a manifest of two rows with two cells each, written after the
\* packer returned fewer durations than there were non-blank lines
C11_Witness ==
    /\ ManifestWritten
    /\ Len(lines_json.rows) = 2
    /\ Len(NonBlankLines) = 3
    /\ Len(LastCombo.subs) = 2
    /\ lines_json.rows[1].dur + lines_json.rows[2].dur = MAX_SHORTS_MS


\* the durations of the rows of lines.json, in order
ManifestDurs == [i \in 1..Len(lines_json.rows) |-> lines_json.rows[i].dur]

\* C12: once run_one has written lines.json, the durations of its rows sum
\* (in ms) to the final elapsed of the packer, which is the length of the
\* merged track the packer exported in the same run; so they sum to no more
\* than the duration of that track.
C12_ManifestSumIsTrackLength ==
    ManifestWritten =>
        /\ full_raw.exists
        /\ SumSeq(ManifestDurs) = elapsed
        /\ SumSeq(ManifestDurs) = TrackLen(full_raw.track)
        /\ SumSeq(ManifestDurs) <= TrackLen(full_raw.track)

\* C12 witness: the renderer is about to be started on a manifest whose
\* second row is a clip the packer cut short
C12_Witness ==
    /\ ManifestWritten
    /\ run_pc = "render"
    /\ Len(lines_json.rows) >= 2
    /\ lines_json.rows[2].dur < clips[2]
    /\ SumSeq(ManifestDurs) = TrackLen(full_raw.track)


\* C19: an error of an upstream service (the language-model call in
\* make_dialogue, the TTS call in speak, the image search in fetch) never
\* leaves run_one as an exception: run_one never fails with an error raised
\* by make_dialogue or speak, and fetch never raises.
C19_UpstreamErrorsRecovered ==
    /\ run_pc = "failed" => run_err \notin {"llm", "tts"}
    /\ bg_pc # "raised"

\* C20: the combos are run one at a time in the order of COMBOS, and when
\* run_all is over, normally or not, every combo of COMBOS has been run,
\* whatever happened to the combos before it.
C20_EveryComboRun ==
    /\ \A k \in 1..Len(batch_log) : batch_log[k].combo = k
    /\ \A k \in 1..Len(batch_log) : k < Len(batch_log) => batch_log[k].outcome # "running"
    /\ batch_pc \in {"finished", "aborted"} => Len(batch_log) = Len(combos)


\* the stages of one run_one in the order of the code, and the stages a log contains
StageOrder ==
    <<"reset", "script", "synth", "pack", "enhance", "fetch", "manifest", "thumbnail", "render", "upload">>
Logged(st) == \E k \in 1..Len(stages) : stages[k] = st
\* the renderer has been started, or is the next thing run_one does
RenderingStarted == run_pc = "render" \/ Logged("render") \/ run_err = "render"

\* C21: within one run_one the stages happen in the order script, synthesis,
\* packing, mastering, manifest, rendering, upload (the log of stages is
\* always a prefix of that order); lines.json is written at most once, and
\* exactly once before rendering starts; rendering never starts with
\* --lines-only; an upload happens only when uploading is enabled and only
\* of a video the renderer has written after exiting with code 0.
C21_StagesInOrder ==
    /\ Len(stages) <= Len(StageOrder)
    /\ stages = SubSeq(StageOrder, 1, Len(stages))
    /\ manifest_writes <= 1
    /\ RenderingStarted => manifest_writes = 1 /\ Logged("manifest") /\ lines_json.exists
    /\ lines_only => ~RenderingStarted /\ run_pc \notin {"thumb", "upload"} /\ videos = <<>>
    /\ Logged("upload") => do_upload /\ Logged("render")
    /\ run_pc = "upload" => do_upload /\ Logged("render")
    /\ uploads # <<>> => do_upload
    /\ \A k \in 1..Len(uploads) : \E v \in 1..Len(videos) : videos[v] = uploads[k]

\* C21 witness: a run_one that went through every stage and uploaded the
\* video it rendered
C21_Witness ==
    /\ stages = StageOrder
    /\ manifest_writes = 1
    /\ uploads # <<>>
    /\ uploads[Len(uploads)] = videos[Len(videos)]


\* TEMP holds none of the files of a run
TempEmpty ==
    /\ clips = <<>>
    /\ full_raw = NoFile
    /\ full_mp3 = NoOut
    /\ bg_png = NoPng
    /\ lines_json = NoManifest

\* C22: run_one empties TEMP before it does anything else (when it is about
\* to build the script nothing is there); the merged track enhance reads is
\* the one the packer of this run exported from this run's clips; the
\* manifest, the mastered track and the background the renderer reads were
\* written in this run; and whenever the packer has returned, with or
\* without clips, full_raw.mp3 holds exactly what it combined.
C22_TempFreshPerRun ==
    /\ run_pc \in {"script", "dialogue"} => TempEmpty
    /\ pc = "done" => full_raw = [exists |-> TRUE, track |-> combined]
    /\ run_pc \in {"pack", "enhance", "fetch", "thumb", "render", "upload"} => mp_paths = clips
    /\ run_pc \in {"enhance", "fetch", "thumb", "render", "upload"} =>
          pc = "done" /\ full_raw.exists /\ full_raw.track = combined
    /\ run_pc \in {"thumb", "render", "upload"} =>
          /\ manifest_writes = 1 /\ lines_json.exists
          /\ [i \in 1..Len(lines_json.rows) |-> lines_json.rows[i].dur] = run_durs
          /\ full_mp3.state = "ok" /\ full_mp3.track = full_raw.track
          /\ bg_png.kind \in {"solid", "photo"}

\* C22 witness: the second combo of a batch is about to be rendered, after the
\* first combo left its own files in TEMP
C22_Witness ==
    /\ Len(batch_log) = 2
    /\ batch_log[1].outcome = "returned"
    /\ run_pc = "render"
    /\ Len(videos) = 1
    /\ full_raw.exists
    /\ lines_json.exists


\* the speaker the entry at 0-based position i is said to have
ExpectedSpeaker(i) ==
    IF IsMonologue THEN <<"N">> ELSE IF i % 2 = 0 THEN <<"Alice">> ELSE <<"Bob">>

\* C23: whatever the language model answers, the list make_dialogue returns
\* has speaker Alice at the even positions and Bob at the odd ones in the
\* two-speaker modes, and speaker N everywhere in the monologue modes.
C23_SpeakersAlternate ==
    dlg_pc = "returned" =>
        \A i \in 1..Len(dlg_result) : dlg_result[i].spk = ExpectedSpeaker(i - 1)

====
